---- MODULE Spec2Model ----
(***************************************************************************)
(* Othello rules engine (othello-lib): the Board (board.rs) with its       *)
(* sandwich-capture search and transactional apply_move, and the Game      *)
(* (game.rs) with its run loop, forced passes and outcome.                 *)
(*                                                                         *)
(* Encodings.  Option<T>: None is the empty tuple, Some(x) the 1-tuple     *)
(* <<x>>.  Result<T, E>: Ok(v) and Err(e) are records.  A Disc is one of   *)
(* the strings of disc.rs; a square is an Option<Disc>.                    *)
(*                                                                         *)
(* A Rust `let x = e;` followed by code that uses x is written             *)
(*     CHOOSE r \in {body(x) : x \in {e}} : TRUE                            *)
(* the value of the body with x bound to the value of e, computed once.    *)
(***************************************************************************)
EXTENDS Integers, Sequences, FiniteSets, TLC

VARIABLES squares, current, black, white, pc, call

vars == <<squares, current, black, white, pc, call>>

----------------------------------------------------------------------------
(* Bounds of the exploration *)

\* Board specification: at most this many successful placements are explored.
MaxPlacements == 3

\* Largest index handed to the board or returned by a player; 64..MaxIndex are out of
\* range.
MaxIndex == 65

\* Game specification: HumanPlayer is asked while fewer discs than this were placed.
MaxFreePlies == 2

\* Test specification: at most this many moves are applied through apply_current.
MaxTestMoves == 1

\* Conversion specification: rows and columns 0..MaxCoord are converted; 8..MaxCoord are
\* out of range.
MaxCoord == 9

\* Line specification: at most this many discs of one colour are laid in a row before the
\* disc that ends the run.
MaxRun == 7

----------------------------------------------------------------------------
(* Option and Result *)

None == << >>

Some(x) == <<x>>

Ok(v) == [ok |-> TRUE, val |-> v]

Err(e) == [ok |-> FALSE, err |-> e]

Unit == "()"

\* A call that panics returns nothing; where a panic is possible the model gives the
\* call this value, which is neither None nor Some(x).
Panic == <<"panic", "capacity">>

----------------------------------------------------------------------------
(* disc.rs *)

Disc == {"Black", "White", "Empty"}

\* The two sides that play; every caller in board.rs and game.rs passes one of these.
Sides == {"Black", "White"}

opposite(d) ==
    CASE d = "Black" -> Some("White")
      [] d = "White" -> Some("Black")
      [] d = "Empty" -> None

----------------------------------------------------------------------------
(* board.rs: constants, directions, coordinates *)

BOARD_WIDTH == 8

BOARD_HEIGHT == 8

\* Mutant of BOARD_MAX_DIM: the capture buffer of one direction holds two cells less.
BOARD_MAX_DIM_SHORT == BOARD_WIDTH - 2

BOARD_MAX_DIM == 8

BOARD_SURFACE == BOARD_WIDTH * BOARD_HEIGHT

BoardError == {"OutOfBounds", "SquareOccupied", "InvalidMove"}

\* Direction::ALL, in the order of the array
ALL == <<"North", "NorthEast", "East", "SouthEast", "South", "SouthWest", "West", "NorthWest">>

delta_row_col(dir) ==
    CASE dir = "North"     -> <<-1, 0>>
      [] dir = "NorthEast" -> <<-1, 1>>
      [] dir = "East"      -> <<0, 1>>
      [] dir = "SouthEast" -> <<1, 1>>
      [] dir = "South"     -> <<1, 0>>
      [] dir = "SouthWest" -> <<1, -1>>
      [] dir = "West"      -> <<0, -1>>
      [] dir = "NorthWest" -> <<-1, -1>>

\* Mutant of index: the column is not tested, a column past the end runs into the next row.
index_unchecked_col(row, col) ==
    IF row >= BOARD_HEIGHT THEN Err("OutOfBounds")
    ELSE Ok(BOARD_WIDTH * row + col)

index(row, col) ==
    IF row >= BOARD_HEIGHT THEN Err("OutOfBounds")
    ELSE IF col >= BOARD_WIDTH THEN Err("OutOfBounds")
    ELSE Ok(BOARD_WIDTH * row + col)

row_col(i) ==
    IF i >= BOARD_SURFACE THEN Err("OutOfBounds")
    ELSE Ok(<<i \div BOARD_WIDTH, i % BOARD_WIDTH>>)

step_coord(coord, delta, limit) ==
    CHOOSE r \in {IF next < 0 \/ next >= limit THEN None ELSE Some(next) :
                    next \in {coord + delta}} : TRUE

step_row(row, delta) == step_coord(row, delta, BOARD_HEIGHT)

step_col(col, delta) == step_coord(col, delta, BOARD_WIDTH)

\* Result::ok(): Ok(v) becomes Some(v), an error None
ok(r) == IF r.ok THEN Some(r.val) ELSE None

\* next_index once both steps are taken: `?` on next_row, then on next_col, then index
next_index_at(next_row, next_col) ==
    IF next_row = None THEN None
    ELSE IF next_col = None THEN None
    ELSE ok(index(next_row[1], next_col[1]))

\* next_index once row_col(index).ok() and the direction's deltas are known
next_index_from(rc, d) ==
    IF rc = None THEN None
    ELSE CHOOSE r \in {next_index_at(next_row, next_col) :
                         next_row \in {step_row(rc[1][1], d[1])},
                         next_col \in {step_col(rc[1][2], d[2])}} : TRUE

\* Mutant of next_index: the step is taken on the index itself, so that a step past the
\* last column lands on the first column of the next row.
next_index_linear(i, direction) ==
    IF i + BOARD_WIDTH * delta_row_col(direction)[1] + delta_row_col(direction)[2]
           \in 0..(BOARD_SURFACE - 1)
    THEN Some(i + BOARD_WIDTH * delta_row_col(direction)[1] + delta_row_col(direction)[2])
    ELSE None

next_index(i, direction) ==
    CHOOSE r \in {next_index_from(rc, d) :
                    rc \in {ok(row_col(i))}, d \in {delta_row_col(direction)}} : TRUE

----------------------------------------------------------------------------
(* board.rs: the squares *)

\* Mutant of NewBoard: the two colours are exchanged.
NewBoardSwapped ==
    [i \in 0..(BOARD_SURFACE - 1) |->
        IF i \in {27, 36} THEN Some("Black")
        ELSE IF i \in {28, 35} THEN Some("White")
        ELSE None]

\* Board::new: all squares None, then the four centre discs
NewBoard ==
    LET mid_row == BOARD_HEIGHT \div 2
        mid_col == BOARD_WIDTH \div 2
        init == { <<mid_row, mid_col, "White">>,
                  <<mid_row - 1, mid_col, "Black">>,
                  <<mid_row, mid_col - 1, "Black">>,
                  <<mid_row - 1, mid_col - 1, "White">> }
    IN  [i \in 0..(BOARD_SURFACE - 1) |->
            IF \E t \in init : index(t[1], t[2]).val = i
            THEN Some((CHOOSE t \in init : index(t[1], t[2]).val = i)[3])
            ELSE None]

\* Mutant of get_field: an index past the end wraps around instead of failing.
get_field_wrapping(sq, i) == Ok(sq[i % BOARD_SURFACE])

get_field(sq, i) ==
    IF i \in DOMAIN sq THEN Ok(sq[i]) ELSE Err("OutOfBounds")

\* returns the result and the squares after the call
set_field(sq, i, disc) ==
    IF i \in DOMAIN sq
    THEN [result |-> Ok(Unit), squares |-> [sq EXCEPT ![i] = Some(disc)]]
    ELSE [result |-> Err("OutOfBounds"), squares |-> sq]

\* The `while let` loop of flips_in_direction, from square i on.  opponent is
\* disc.opposite(), an Option<Disc> in disc.rs, and is compared with the square.  The
\* loop gives the value returned and `flips`, the content of the buffer at that point.
RECURSIVE flips_walk(_, _, _, _, _, _)
\* flips.push(i) and the rest of the walk: ArrayVec::push panics on a full buffer
flips_push(sq, i, disc, opponent, dir, flips) ==
    IF Len(flips) >= BOARD_MAX_DIM THEN [result |-> Panic, flips |-> flips]
    ELSE flips_walk(sq, i, disc, opponent, dir, Append(flips, i))

\* the body of the loop: next is next_index(index, dir)
flips_walk_at(sq, disc, opponent, dir, flips, next) ==
    IF next = None THEN [result |-> None, flips |-> flips]
    ELSE IF ok(get_field(sq, next[1])) = None THEN [result |-> None, flips |-> flips]
    ELSE IF sq[next[1]] = opponent
         THEN flips_push(sq, next[1], disc, opponent, dir, flips)
    ELSE IF sq[next[1]] = Some(disc) THEN [result |-> Some(flips), flips |-> flips]
    ELSE [result |-> None, flips |-> flips]

flips_walk(sq, i, disc, opponent, dir, flips) ==
    CHOOSE r \in {flips_walk_at(sq, disc, opponent, dir, flips, next) :
                    next \in {next_index(i, dir)}} : TRUE

\* flips_in_direction once the first step is taken: first is next_index(start, dir)
flips_first(sq, disc, opponent, dir, first) ==
    IF first = None THEN [result |-> None, flips |-> << >>]
    ELSE IF ok(get_field(sq, first[1])) = None THEN [result |-> None, flips |-> << >>]
    ELSE IF sq[first[1]] # opponent THEN [result |-> None, flips |-> << >>]
    ELSE flips_push(sq, first[1], disc, opponent, dir, << >>)

\* flips_in_direction with its buffer: the value returned and what `flips` holds then
flips_in_direction_run(sq, start, disc, dir) ==
    CHOOSE r \in {flips_first(sq, disc, opponent, dir, first) :
                    opponent \in {opposite(disc)}, first \in {next_index(start, dir)}} : TRUE

\* Mutant of flips_in_direction: a run that ends at an empty square is captured too.
RECURSIVE flips_walk_to_gap(_, _, _, _, _)
flips_walk_to_gap(sq, disc, opponent, dir, flips) ==
    IF next_index(flips[Len(flips)], dir) = None THEN None
    ELSE IF sq[next_index(flips[Len(flips)], dir)[1]] = opponent
         THEN flips_walk_to_gap(sq, disc, opponent, dir,
                                Append(flips, next_index(flips[Len(flips)], dir)[1]))
    ELSE Some(flips)

flips_in_direction_to_gap(sq, start, disc, dir) ==
    IF next_index(start, dir) = None THEN None
    ELSE IF sq[next_index(start, dir)[1]] # opposite(disc) THEN None
    ELSE flips_walk_to_gap(sq, disc, opposite(disc), dir, <<next_index(start, dir)[1]>>)

flips_in_direction(sq, start, disc, dir) == flips_in_direction_run(sq, start, disc, dir).result

\* Mutant of all_flips_from: the is_empty test is dropped, an empty list is Some.
RECURSIVE all_flips_from_any(_, _, _, _, _)
all_flips_from_any(sq, start, disc, k, all) ==
    IF k > Len(ALL) THEN Some(all)
    ELSE IF flips_in_direction(sq, start, disc, ALL[k]) = None
         THEN all_flips_from_any(sq, start, disc, k + 1, all)
    ELSE all_flips_from_any(sq, start, disc, k + 1,
                            all \o flips_in_direction(sq, start, disc, ALL[k])[1])

\* The `for dir in Direction::ALL` loop of all_flips, from direction number k on; `all`
\* is the list so far.
RECURSIVE all_flips_from(_, _, _, _, _)
\* the body of the loop: flips is flips_in_direction(start, disc, dir); a panic in it
\* ends all_flips, and try_extend_from_slice fails when `all` cannot hold the slice
all_flips_extend(sq, start, disc, k, all, flips) ==
    IF flips = None THEN all_flips_from(sq, start, disc, k + 1, all)
    ELSE IF flips = Panic THEN Panic
    ELSE IF Len(all) + Len(flips[1]) > BOARD_SURFACE THEN None
    ELSE all_flips_from(sq, start, disc, k + 1, all \o flips[1])

all_flips_from(sq, start, disc, k, all) ==
    IF k > Len(ALL)
    THEN IF all = << >> THEN None ELSE Some(all)
    ELSE CHOOSE r \in {all_flips_extend(sq, start, disc, k, all, flips) :
                         flips \in {flips_in_direction(sq, start, disc, ALL[k])}} : TRUE

all_flips(sq, start, disc) == all_flips_from(sq, start, disc, 1, << >>)

\* Mutant of set_flips: the captured discs are taken off the board.
set_flips_remove(sq, flips, k, disc) ==
    [result |-> Ok(Unit),
     squares |-> [i \in DOMAIN sq |->
                     IF \E n \in k..Len(flips) : flips[n] = i THEN None ELSE sq[i]]]

\* Mutant of set_flips: the loop stops one element early.
RECURSIVE set_flips_short(_, _, _, _)
set_flips_short(sq, flips, k, disc) ==
    IF k >= Len(flips) THEN [result |-> Ok(Unit), squares |-> sq]
    ELSE set_flips_short(set_field(sq, flips[k], disc).squares, flips, k + 1, disc)

\* The `for index in flips` loop of apply_move, from element k on; `?` returns at the
\* first error.
RECURSIVE set_flips(_, _, _, _)
\* the body of the loop: s is what set_field(index, disc) gave
set_flips_next(s, flips, k, disc) ==
    IF ~s.result.ok THEN s ELSE set_flips(s.squares, flips, k + 1, disc)

set_flips(sq, flips, k, disc) ==
    IF k > Len(flips) THEN [result |-> Ok(Unit), squares |-> sq]
    ELSE CHOOSE r \in {set_flips_next(s, flips, k, disc) :
                         s \in {set_field(sq, flips[k], disc)}} : TRUE

\* apply_move from `self.set_field(start, disc)?` on: placed is what set_field gave
apply_move_placed(placed, flips, disc) ==
    IF ~placed.result.ok THEN placed ELSE set_flips(placed.squares, flips, 1, disc)

\* apply_move once the square is known to be empty: flips is all_flips(start, disc)
apply_move_flips(sq, start, disc, flips) ==
    IF flips = None THEN [result |-> Err("InvalidMove"), squares |-> sq]
    ELSE CHOOSE r \in {apply_move_placed(placed, list, disc) :
                         placed \in {set_field(sq, start, disc)}, list \in {flips[1]}} : TRUE

\* Mutant of apply_move: the disc is placed before the captures are looked for.
apply_move_place_first(sq, start, disc) ==
    IF ~get_field(sq, start).ok THEN [result |-> Err("OutOfBounds"), squares |-> sq]
    ELSE IF sq[start] # None THEN [result |-> Err("SquareOccupied"), squares |-> sq]
    ELSE IF all_flips(sq, start, disc) = None
         THEN [result |-> Err("InvalidMove"), squares |-> set_field(sq, start, disc).squares]
    ELSE apply_move_flips(sq, start, disc, all_flips(sq, start, disc))

\* Mutant of apply_move: the captures are flipped but the disc itself is not placed.
apply_move_flips_only(sq, start, disc) ==
    IF ~get_field(sq, start).ok THEN [result |-> Err("OutOfBounds"), squares |-> sq]
    ELSE IF sq[start] # None THEN [result |-> Err("SquareOccupied"), squares |-> sq]
    ELSE IF all_flips(sq, start, disc) = None
         THEN [result |-> Err("InvalidMove"), squares |-> sq]
    ELSE set_flips(sq, all_flips(sq, start, disc)[1], 1, disc)

\* Mutant of apply_move: the captures are looked for before the square is tested.
apply_move_legality_first(sq, start, disc) ==
    IF ~get_field(sq, start).ok THEN [result |-> Err("OutOfBounds"), squares |-> sq]
    ELSE IF all_flips(sq, start, disc) = None
         THEN [result |-> Err("InvalidMove"), squares |-> sq]
    ELSE IF sq[start] # None THEN [result |-> Err("SquareOccupied"), squares |-> sq]
    ELSE apply_move_flips(sq, start, disc, all_flips(sq, start, disc))

\* Mutant of apply_move: the test for an occupied square is missing.
apply_move_unchecked(sq, start, disc) ==
    IF ~get_field(sq, start).ok THEN [result |-> Err("OutOfBounds"), squares |-> sq]
    ELSE apply_move_flips(sq, start, disc, all_flips(sq, start, disc))

apply_move(sq, start, disc) ==
    IF ~get_field(sq, start).ok THEN [result |-> Err("OutOfBounds"), squares |-> sq]
    ELSE IF get_field(sq, start).val # None
         THEN [result |-> Err("SquareOccupied"), squares |-> sq]
    ELSE CHOOSE r \in {apply_move_flips(sq, start, disc, flips) :
                         flips \in {all_flips(sq, start, disc)}} : TRUE

\* Mutant of is_valid_move: the square is not tested, only the captures are.
is_valid_move_unchecked(sq, start, disc) == all_flips(sq, start, disc) # None

is_valid_move(sq, start, disc) ==
    IF ~(get_field(sq, start).ok /\ get_field(sq, start).val = None) THEN FALSE
    ELSE all_flips(sq, start, disc) # None

\* Mutant of count_discs: every square that holds a disc is counted, whatever its colour.
count_discs_any_colour(sq, disc) == Cardinality({i \in DOMAIN sq : sq[i] # None})

count_discs(sq, disc) == Cardinality({i \in DOMAIN sq : sq[i] = Some(disc)})

----------------------------------------------------------------------------
(* What the specifications record, and what bounds them *)

\* the record of the latest call: what was asked, on which squares, and the result
NoCall == [op |-> "none"]

\* the number of discs placed since Board::new
Placed(sq) == Cardinality({i \in DOMAIN sq : sq[i] # None}) - 4

----------------------------------------------------------------------------
(* The board on its own: a Board value driven through its public mutator. *)

InitBoard ==
    /\ squares = NewBoard
    /\ current = "Black"
    /\ black = "none"
    /\ white = "none"
    /\ pc = "board"
    /\ call = NoCall

\* board.apply_move(start, disc), for any index and either side
Applied(start, disc, r) ==
    /\ r.result.ok => Placed(squares) < MaxPlacements
    /\ squares' = r.squares
    /\ call' = [op |-> "apply_move", start |-> start, disc |-> disc,
                 before |-> squares, result |-> r.result]

ApplyMove(start, disc) ==
    /\ pc = "board"
    /\ call = NoCall
    /\ Applied(start, disc, apply_move(squares, start, disc))
    /\ UNCHANGED <<current, black, white, pc>>

\* board.is_valid_move(start, disc): a query, the squares are only read
IsValidMove(start, disc) ==
    /\ pc = "board"
    /\ call = NoCall
    /\ call' = [op |-> "is_valid_move", start |-> start, disc |-> disc,
                 before |-> squares, result |-> is_valid_move(squares, start, disc)]
    /\ UNCHANGED <<squares, current, black, white, pc>>

\* the caller takes the result of the call; the board is ready for the next call
TakeResult ==
    /\ pc = "board"
    /\ call # NoCall
    /\ call' = NoCall
    /\ UNCHANGED <<squares, current, black, white, pc>>

NextBoard ==
    \/ \E start \in 0..MaxIndex, disc \in Sides : ApplyMove(start, disc)
    \/ \E start \in 0..MaxIndex, disc \in Sides : IsValidMove(start, disc)
    \/ TakeResult

SpecBoard == InitBoard /\ [][NextBoard]_vars

----------------------------------------------------------------------------
(* The capture search on its own, driven as the tests of board.rs drive it: discs are *)
(* put on a new board with set_field, then flips_in_direction or all_flips is        *)
(* asked.  The discs are laid from the square next to `start` at a constant distance  *)
(* `stride` of indices: a run of one colour, then, right after it or one square       *)
(* farther, a disc of the other colour.  A stride of 1 or 7 or 9 runs over the end of *)
(* a row into the next row.                                                           *)

Strides == {1, 7, 8, 9, -1, -7, -8, -9}

InitLine ==
    /\ squares = NewBoard
    /\ current = "Black"
    /\ black = "none"
    /\ white = "none"
    /\ pc = "line"
    /\ call = NoCall

\* board.set_field(i, disc).unwrap(); run is the number of discs of the run laid so far
Laid(start, stride, i, disc, run, ended, r) ==
    /\ r.result.ok
    /\ squares' = r.squares
    /\ call' = [op |-> "set_field", start |-> start, stride |-> stride, index |-> i,
                 disc |-> disc, run |-> run, ended |-> ended]

\* the first disc of the run, next to start
SetFirst(start, stride, disc) ==
    /\ pc = "line"
    /\ call = NoCall
    /\ Laid(start, stride, start + stride, disc, 1, FALSE,
            set_field(squares, start + stride, disc))
    /\ UNCHANGED <<current, black, white, pc>>

\* one more disc of the run
SetRun ==
    /\ pc = "line"
    /\ call.op = "set_field"
    /\ ~call.ended
    /\ call.run < MaxRun
    /\ Laid(call.start, call.stride, call.index + call.stride, call.disc, call.run + 1, FALSE,
            set_field(squares, call.index + call.stride, call.disc))
    /\ UNCHANGED <<current, black, white, pc>>

\* the disc of the other colour, `gap` squares after the last disc of the run
SetEnd(gap) ==
    /\ pc = "line"
    /\ call.op = "set_field"
    /\ ~call.ended
    /\ Laid(call.start, call.stride, call.index + gap * call.stride,
            opposite(call.disc)[1], call.run, TRUE,
            set_field(squares, call.index + gap * call.stride, opposite(call.disc)[1]))
    /\ UNCHANGED <<current, black, white, pc>>

\* board.flips_in_direction(start, disc, dir): a query, the squares are only read;
\* `flips` is what the buffer of the call held when it returned
FlipsInDirection(disc, dir) ==
    /\ pc = "line"
    /\ call.op = "set_field"
    /\ \E r \in {flips_in_direction_run(squares, call.start, disc, dir)} :
          call' = [op |-> "flips_in_direction", start |-> call.start, disc |-> disc,
                   dir |-> dir, before |-> squares, result |-> r.result,
                   flips |-> r.flips]
    /\ UNCHANGED <<squares, current, black, white, pc>>

\* board.all_flips(start, disc): a query, the squares are only read
AllFlips(disc) ==
    /\ pc = "line"
    /\ call.op = "set_field"
    /\ call' = [op |-> "all_flips", start |-> call.start, disc |-> disc,
                 before |-> squares, result |-> all_flips(squares, call.start, disc)]
    /\ UNCHANGED <<squares, current, black, white, pc>>

NextLine ==
    \/ \E start \in 0..(BOARD_SURFACE - 1), stride \in Strides, disc \in Sides :
           SetFirst(start, stride, disc)
    \/ SetRun
    \/ \E gap \in 1..2 : SetEnd(gap)
    \/ \E disc \in Sides, k \in 1..Len(ALL) : FlipsInDirection(disc, ALL[k])
    \/ \E disc \in Sides : AllFlips(disc)

SpecLine == InitLine /\ [][NextLine]_vars

----------------------------------------------------------------------------
(* The conversions on their own: Disc::opposite, Board::index and Board::row_col *)
(* called on any input, and on each other's result.                             *)

InitPure ==
    /\ squares = NewBoard
    /\ current = "Black"
    /\ black = "none"
    /\ white = "none"
    /\ pc = "pure"
    /\ call = NoCall

\* d.opposite(), for any value of the enum
Opposite(d) ==
    /\ pc = "pure"
    /\ call' = [op |-> "opposite", disc |-> d, result |-> opposite(d), back |-> None]
    /\ UNCHANGED <<squares, current, black, white, pc>>

\* opposite() of the Disc that the latest opposite() returned
OppositeOfOpposite ==
    /\ pc = "pure"
    /\ call.op = "opposite" /\ call.result # None
    /\ call' = [op |-> "opposite", disc |-> call.result[1],
                 result |-> opposite(call.result[1]), back |-> Some(call.disc)]
    /\ UNCHANGED <<squares, current, black, white, pc>>

\* board.index(row, col)
Index(row, col) ==
    /\ pc = "pure"
    /\ call' = [op |-> "index", row |-> row, col |-> col, result |-> index(row, col),
                 back |-> None]
    /\ UNCHANGED <<squares, current, black, white, pc>>

\* board.row_col(i)
RowCol(i) ==
    /\ pc = "pure"
    /\ call' = [op |-> "row_col", i |-> i, result |-> row_col(i), back |-> None]
    /\ UNCHANGED <<squares, current, black, white, pc>>

\* board.row_col of the index that the latest board.index returned
RowColOfIndex ==
    /\ pc = "pure"
    /\ call.op = "index" /\ call.result.ok
    /\ call' = [op |-> "row_col", i |-> call.result.val, result |-> row_col(call.result.val),
                 back |-> Some(<<call.row, call.col>>)]
    /\ UNCHANGED <<squares, current, black, white, pc>>

\* board.index of the row and column that the latest board.row_col returned
IndexOfRowCol ==
    /\ pc = "pure"
    /\ call.op = "row_col" /\ call.result.ok
    /\ call' = [op |-> "index", row |-> call.result.val[1], col |-> call.result.val[2],
                 result |-> index(call.result.val[1], call.result.val[2]),
                 back |-> Some(call.i)]
    /\ UNCHANGED <<squares, current, black, white, pc>>

NextPure ==
    \/ \E d \in Disc : Opposite(d)
    \/ OppositeOfOpposite
    \/ \E row \in 0..MaxCoord, col \in 0..MaxCoord : Index(row, col)
    \/ \E i \in 0..MaxIndex : RowCol(i)
    \/ RowColOfIndex
    \/ IndexOfRowCol

SpecPure == InitPure /\ [][NextPure]_vars

----------------------------------------------------------------------------
(* game.rs *)

\* GameError
GameInvalidMove == <<"InvalidMove">>

GameBoardError(e) == <<"BoardError", e>>

\* GameOutcome
Tie == <<"Tie">>

Winner(d) == <<"Winner", d>>

\* the elements of the set of indices S, in ascending order
ascending(S) ==
    [k \in 1..Cardinality(S) |-> CHOOSE i \in S : Cardinality({j \in S : j < i}) = k - 1]

\* Board::valid_moves(disc): the indices where is_valid_move holds for disc, in
\* ascending order
valid_moves(sq, disc) ==
    CHOOSE moves \in {ascending(S) :
                        S \in {{i \in 0..(BOARD_SURFACE - 1) : is_valid_move(sq, i, disc)}}} : TRUE

\* Mutant of forced_pass: the loop never sees a forced pass.
forced_pass_never(sq, cur) == FALSE

\* Mutant of current_player: the player of the other side is returned.
current_player_swapped(cur, b, w) ==
    CASE cur = "Black" -> w
      [] cur = "White" -> b

current_player(cur, b, w) ==
    CASE cur = "Black" -> b
      [] cur = "White" -> w

available_moves(sq, cur) == valid_moves(sq, cur)

forced_pass(sq, cur) == available_moves(sq, cur) = << >>

\* apply_current after the legality test: r is what board.apply_move gave, its error
\* mapped by GameError::BoardError
apply_current_applied(r) ==
    IF ~r.result.ok
    THEN [result |-> Err(GameBoardError(r.result.err)), squares |-> r.squares]
    ELSE [result |-> Ok(Unit), squares |-> r.squares]

\* Mutant of apply_current_legal: the move is handed to the board without the test.
apply_current_no_recheck(sq, cur, choice, legal) ==
    apply_current_applied(apply_move(sq, choice, cur))

\* apply_current once legal is board.valid_moves(current)
apply_current_legal(sq, cur, choice, legal) ==
    IF ~(\E k \in 1..Len(legal) : legal[k] = choice)
    THEN [result |-> Err(GameInvalidMove), squares |-> sq]
    ELSE CHOOSE a \in {apply_current_applied(r) : r \in {apply_move(sq, choice, cur)}} : TRUE

\* returns the result and the squares after the call
apply_current(sq, cur, choice) ==
    CHOOSE r \in {apply_current_legal(sq, cur, choice, legal) :
                    legal \in {valid_moves(sq, cur)}} : TRUE

\* Mutant of advance_turn: the turn always goes to Black.
advance_turn_to_black(cur) == "Black"

\* self.current = self.current.opposite()
advance_turn(cur) == opposite(cur)[1]

\* Mutant of is_over: only one side's moves are looked at.
is_over_black_only(sq) == valid_moves(sq, "Black") = << >>

is_over(sq) == valid_moves(sq, "Black") = << >> /\ valid_moves(sq, "White") = << >>

\* Mutant of outcome_cmp: the two winners are exchanged.
outcome_cmp_swapped(b, w) ==
    IF b > w THEN Some(Winner("White"))
    ELSE IF b < w THEN Some(Winner("Black"))
    ELSE Some(Tie)

\* outcome once the game is known to be over: b and w are the two counts
outcome_cmp(b, w) ==
    IF b > w THEN Some(Winner("Black"))
    ELSE IF b < w THEN Some(Winner("White"))
    ELSE Some(Tie)

outcome(sq) ==
    IF ~is_over(sq) THEN None
    ELSE outcome_cmp(count_discs(sq, "Black"), count_discs(sq, "White"))

----------------------------------------------------------------------------
(* player.rs: the choosers *)

\* the move lists of the tests of game.rs
ForcedPassMoves == <<19, 18, 17, 9, 37, 16, 0, 2>>

WinnerMoves == <<44, 29, 20, 45, 38, 43, 52, 37, 34>>

TieMoves == <<37, 29, 18, 45, 54, 53, 21, 55, 61, 9, 47, 52, 63, 20, 51, 22, 13, 5, 0, 34>>

Script(player) ==
    CASE player = "ForcedPassScript" -> ForcedPassMoves
      [] player = "WinnerScript" -> WinnerMoves
      [] player = "TieScript" -> TieMoves

Scripted == {"ForcedPassScript", "WinnerScript", "TieScript"}

\* players that return the same index whatever the board: DummyPlayer (tests of
\* game.rs) returns 0, the two others an occupied centre square and an index off the board
Constant(player) ==
    CASE player = "DummyPlayer" -> 0
      [] player = "CentrePlayer" -> 27
      [] player = "OffBoardPlayer" -> BOARD_SURFACE

Constants == {"DummyPlayer", "CentrePlayer", "OffBoardPlayer"}

\* The implementations of Player the model plays with: ComputerPlayer (computer.rs, the
\* ValidPlayer of the tests), HumanPlayer (human.rs: any index the board accepts as
\* valid), the constant players, a player that replays one of the tests' move lists
\* and then answers like the DummyPlayer of those tests, and ErringPlayer, which answers
\* either like DummyPlayer or like ComputerPlayer, call by call.
Players == {"ComputerPlayer", "HumanPlayer", "ErringPlayer"} \cup Constants \cup Scripted

\* select_move once moves is board.valid_moves(disc)
select_from(player, sq, moves) ==
    CASE player = "ComputerPlayer" ->
            \* valid_moves(disc)[0]: on an empty list the index panics, nothing is returned
            IF moves = << >> THEN {} ELSE {moves[1]}
      [] player = "HumanPlayer" ->
            IF Placed(sq) < MaxFreePlies THEN {moves[k] : k \in 1..Len(moves)} ELSE {}
      [] player = "ErringPlayer" ->
            IF Placed(sq) < MaxFreePlies
            THEN {Constant("DummyPlayer")} \cup (IF moves = << >> THEN {} ELSE {moves[1]})
            ELSE {}
      [] player \in Constants -> {Constant(player)}
      [] player \in Scripted ->
            IF Placed(sq) < Len(Script(player)) THEN {Script(player)[Placed(sq) + 1]}
            ELSE {Constant("DummyPlayer")}

\* Player::select_move(board, disc): the set of values the call may return
select_move(player, sq, disc) ==
    CHOOSE choices \in {select_from(player, sq, moves) :
                          moves \in {valid_moves(sq, disc)}} : TRUE

----------------------------------------------------------------------------
(* Game::new followed by Game::run, one iteration of its loop per step *)

Init ==
    /\ squares = NewBoard
    /\ current = "Black"
    /\ black \in Players
    /\ white \in Players
    /\ pc = "run"
    /\ call = NoCall

\* Mutant of ForcedPass: the branch forgets advance_turn.
ForcedPassKeepsTurn ==
    /\ pc = "run"
    /\ forced_pass(squares, current)
    /\ ~is_over(squares)
    /\ call' = [op |-> "forced_pass", side |-> current, before |-> squares, asked |-> {}]
    /\ UNCHANGED <<squares, current, black, white, pc>>

\* Mutant of ForcedPass: the branch is taken in a state where the game is over, too.
ForcedPassWhenOver ==
    /\ pc = "run"
    /\ forced_pass(squares, current)
    /\ current' = advance_turn(current)
    /\ call' = [op |-> "forced_pass", side |-> current, before |-> squares, asked |-> {}]
    /\ UNCHANGED <<squares, black, white, pc>>

\* while !is_over(): forced_pass() holds, advance_turn(); no player is asked.  `asked`
\* is the set of sides whose Player::select_move the iteration called.
ForcedPass ==
    /\ pc = "run"
    /\ forced_pass(squares, current)
    /\ ~is_over(squares)
    /\ current' = advance_turn(current)
    /\ call' = [op |-> "forced_pass", side |-> current, before |-> squares, asked |-> {}]
    /\ UNCHANGED <<squares, black, white, pc>>

\* the effect of `let _ = self.apply_current(choice)`: r is what the call gave; `player`
\* is the Player whose select_move gave the choice
Played(choice, r) ==
    /\ squares' = r.squares
    /\ call' = [op |-> "move", side |-> current, choice |-> choice,
                 before |-> squares, result |-> r.result, asked |-> {current},
                 player |-> current_player(current, black, white)]

\* Mutant of PlayMove: the choice is applied and the turn advanced without the
\* is_valid_move test.
PlayMoveUnchecked ==
    /\ pc = "run"
    /\ ~forced_pass(squares, current)
    /\ ~is_over(squares)
    /\ \E choice \in select_move(current_player(current, black, white), squares, current) :
          /\ \E r \in {apply_current(squares, current, choice)} : Played(choice, r)
          /\ current' = advance_turn(current)
    /\ UNCHANGED <<black, white, pc>>

\* while !is_over(): the player's choice is a valid move, apply_current and advance_turn
PlayMove ==
    /\ pc = "run"
    /\ ~forced_pass(squares, current)
    /\ ~is_over(squares)
    /\ \E choice \in select_move(current_player(current, black, white), squares, current) :
          /\ is_valid_move(squares, choice, current)
          /\ \E r \in {apply_current(squares, current, choice)} : Played(choice, r)
          /\ current' = advance_turn(current)
    /\ UNCHANGED <<black, white, pc>>

\* Mutant of RejectChoice: advance_turn is called whether or not the choice is valid.
RejectChoiceAdvances ==
    /\ pc = "run"
    /\ ~forced_pass(squares, current)
    /\ ~is_over(squares)
    /\ \E choice \in select_move(current_player(current, black, white), squares, current) :
          /\ ~is_valid_move(squares, choice, current)
          /\ call' = [op |-> "rejected", side |-> current, choice |-> choice,
                       before |-> squares, asked |-> {current},
                       player |-> current_player(current, black, white)]
    /\ current' = advance_turn(current)
    /\ UNCHANGED <<squares, black, white, pc>>

\* while !is_over(): the player's choice is not a valid move, nothing is done
RejectChoice ==
    /\ pc = "run"
    /\ ~forced_pass(squares, current)
    /\ ~is_over(squares)
    /\ \E choice \in select_move(current_player(current, black, white), squares, current) :
          /\ ~is_valid_move(squares, choice, current)
          /\ call' = [op |-> "rejected", side |-> current, choice |-> choice,
                       before |-> squares, asked |-> {current},
                       player |-> current_player(current, black, white)]
    /\ UNCHANGED <<squares, current, black, white, pc>>

\* is_over() holds: run returns self.outcome()
Return ==
    /\ pc = "run"
    /\ is_over(squares)
    /\ pc' = "returned"
    /\ call' = [op |-> "return", before |-> squares, result |-> outcome(squares),
                 asked |-> {}]
    /\ UNCHANGED <<squares, current, black, white>>

Next == ForcedPass \/ PlayMove \/ RejectChoice \/ Return

Spec == Init /\ [][Next]_vars

----------------------------------------------------------------------------
(* The game driven as the tests of game.rs drive it: apply_current and *)
(* advance_turn called directly, with any index.                      *)

InitTest ==
    /\ squares = NewBoard
    /\ current = "Black"
    /\ black = "DummyPlayer"
    /\ white = "DummyPlayer"
    /\ pc = "test"
    /\ call = NoCall

\* the effect of game.apply_current(choice): r is what the call gave
CurrentApplied(choice, r) ==
    /\ r.result.ok => Placed(squares) < MaxTestMoves
    /\ squares' = r.squares
    /\ call' = [op |-> "apply_current", side |-> current, choice |-> choice,
                 before |-> squares, result |-> r.result]

\* game.apply_current(choice), for any index
ApplyCurrent(choice) ==
    /\ pc = "test"
    /\ call = NoCall
    /\ \E r \in {apply_current(squares, current, choice)} : CurrentApplied(choice, r)
    /\ UNCHANGED <<current, black, white, pc>>

\* game.advance_turn()
AdvanceTurn ==
    /\ pc = "test"
    /\ call = NoCall
    /\ current' = advance_turn(current)
    /\ UNCHANGED <<squares, black, white, pc, call>>

\* the test has compared the result of apply_current (assert_eq!) and goes on
Compared ==
    /\ pc = "test"
    /\ call # NoCall
    /\ call' = NoCall
    /\ UNCHANGED <<squares, current, black, white, pc>>

NextTest ==
    \/ \E choice \in 0..MaxIndex : ApplyCurrent(choice)
    \/ AdvanceTurn
    \/ Compared

SpecTest == InitTest /\ [][NextTest]_vars

\* run is a sequential loop: an iteration that can be taken is taken
FairSpec == Init /\ [][Next]_vars /\ WF_vars(Next)

----------------------------------------------------------------------------
(* The rules of the game, stated on rows and columns, for the properties.  *)
(* Nothing below is used by the operators that model board.rs and game.rs. *)

\* the other side
Other(side) == IF side = "Black" THEN "White" ELSE "Black"

\* the eight compass offsets
Offsets == {<<-1, 0>>, <<-1, 1>>, <<0, 1>>, <<1, 1>>, <<1, 0>>, <<1, -1>>, <<0, -1>>, <<-1, -1>>}

\* what lies k steps from `start` along offset o: <<"Edge">> outside the grid, else the square
Ahead(sq, start, o, k) ==
    LET r == (start \div 8) + k * o[1]
        c == (start % 8) + k * o[2]
    IN  IF r < 0 \/ r > 7 \/ c < 0 \/ c > 7 THEN <<"Edge">> ELSE sq[8 * r + c]

\* the length of the sandwich run from `start` along o for `side`: n >= 1 squares of the
\* other side right next to `start`, then a square of `side`; 0 when there is none
RunLength(sq, start, side, o) ==
    LET ns == {n \in 1..6 : /\ \A k \in 1..n : Ahead(sq, start, o, k) = Some(Other(side))
                            /\ Ahead(sq, start, o, n + 1) = Some(side)}
    IN  IF ns = {} THEN 0 ELSE CHOOSE n \in ns : TRUE

\* the squares a disc of `side` placed on `start` sandwiches, over the 8 directions
Sandwiched(sq, start, side) ==
    UNION { {8 * ((start \div 8) + k * o[1]) + (start % 8) + k * o[2] :
                k \in 1..RunLength(sq, start, side, o)} : o \in Offsets }

\* the number of squares that hold a disc
NonEmpty(sq) == Cardinality({i \in DOMAIN sq : sq[i] # None})

\* the latest call was apply_move and it returned an error / Ok
Failed == call.op = "apply_move" /\ ~call.result.ok

Succeeded == call.op = "apply_move" /\ call.result.ok

----------------------------------------------------------------------------
(* Properties of the board, under SpecBoard *)

\* C1: move atomicity.  When apply_move(index, side) returns an error, for any index
\* (in range or not) and either side, the error is one of OutOfBounds, SquareOccupied,
\* InvalidMove and each of the 64 squares holds what it held before the call.
C1_MoveAtomicity ==
    Failed => /\ call.result.err \in BoardError
              /\ \A i \in 0..63 : squares[i] = call.before[i]

\* a call that failed with InvalidMove after at least one disc was placed
C1_Witness ==
    Failed /\ call.result.err = "InvalidMove" /\ NonEmpty(call.before) > 4

\* C2: is_valid_move(index, side) is true exactly when index < 64, the square is empty
\* and some direction holds a run of one or more discs of the other side, next to the
\* square, ended by a disc of `side`; for index >= 64 the answer is false, not an error.
C2_ValidMoveIffSandwich ==
    call.op = "is_valid_move" =>
        /\ call.result \in BOOLEAN
        /\ call.result <=>
              /\ call.start < 64
              /\ squares[call.start] = None
              /\ \E o \in Offsets : RunLength(squares, call.start, call.disc, o) >= 1

\* is_valid_move answered true on a board other than the opening one
C2_Witness ==
    call.op = "is_valid_move" /\ call.result = TRUE /\ NonEmpty(squares) > 4

\* C3: when apply_move(index, side) succeeds, the square at index holds `side`, every
\* square of the 8 directions' sandwich runs holds `side`, and every other square holds
\* what it held before the call.
C3_SuccessEffect ==
    Succeeded =>
        \A i \in 0..63 :
            squares[i] =
                IF i = call.start \/ i \in Sandwiched(call.before, call.start, call.disc)
                THEN Some(call.disc)
                ELSE call.before[i]

\* a successful move that captured two or more discs
C3_Witness ==
    Succeeded /\ Cardinality(Sandwiched(call.before, call.start, call.disc)) >= 2

\* C4, as stated: a successful apply_move that captures captured_count squares changes
\* the number of non-empty squares by 1 + captured_count.
C4_NonEmptyGrowsByOnePlusCaptured ==
    Succeeded =>
        NonEmpty(squares) - NonEmpty(call.before)
            = 1 + Len(all_flips(call.before, call.start, call.disc)[1])

\* C4, amended: a successful apply_move that captures captured_count >= 1 squares changes
\* the number of non-empty squares by exactly 1 (the placed disc): the captured squares
\* held a disc before and hold one after, and the number of squares holding `side` grows
\* by 1 + captured_count.
C4_NonEmptyGrowsByOne ==
    Succeeded =>
        LET captured == all_flips(call.before, call.start, call.disc)[1]
        IN  /\ Len(captured) >= 1
            /\ NonEmpty(squares) - NonEmpty(call.before) = 1
            /\ \A k \in 1..Len(captured) :
                  call.before[captured[k]] # None /\ squares[captured[k]] # None
            /\ count_discs(squares, call.disc) - count_discs(call.before, call.disc)
                  = 1 + Len(captured)

\* a successful move on a board that already saw two placements
C4_Witness ==
    Succeeded /\ NonEmpty(call.before) >= 6

\* the call was apply_move on a square in range that already held a disc
OnOccupied == call.op = "apply_move" /\ call.start < 64 /\ call.before[call.start] # None

\* C5, as stated: apply_move on an occupied square in range from which no direction
\* would capture anything returns InvalidMove, not SquareOccupied.
C5_OccupiedNoCaptureIsInvalidMove ==
    (OnOccupied /\ Sandwiched(call.before, call.start, call.disc) = {})
        => call.result = Err("InvalidMove")

\* C5, amended: apply_move on an occupied square in range from which no direction would
\* capture anything returns SquareOccupied, not InvalidMove, and the board is unchanged.
C5_OccupiedNoCaptureIsSquareOccupied ==
    (OnOccupied /\ Sandwiched(call.before, call.start, call.disc) = {})
        => call.result = Err("SquareOccupied") /\ squares = call.before

\* apply_move on an occupied square next to a disc of the other side, nothing to capture
C5_Witness ==
    /\ OnOccupied
    /\ Sandwiched(call.before, call.start, call.disc) = {}
    /\ \E o \in Offsets : Ahead(call.before, call.start, o, 1) = Some(Other(call.disc))

\* C6: apply_move(index, side) on an occupied square in range, where placing `side`
\* there would otherwise capture at least one disc, returns exactly SquareOccupied and
\* leaves the board unchanged.
C6_OccupiedWithCaptureIsSquareOccupied ==
    (OnOccupied /\ Sandwiched(call.before, call.start, call.disc) # {})
        => call.result = Err("SquareOccupied") /\ squares = call.before

\* apply_move on an occupied square from which a disc would have been captured
C6_Witness ==
    OnOccupied /\ Sandwiched(call.before, call.start, call.disc) # {}

\* C7: apply_move(index, side) with index >= 64 returns exactly OutOfBounds, whatever
\* the board holds, and does not change the board.
C7_OutOfBounds ==
    (call.op = "apply_move" /\ call.start >= 64)
        => call.result = Err("OutOfBounds") /\ squares = call.before

\* apply_move(64, side) on a board where `side` has a legal move
C7_Witness ==
    /\ call.op = "apply_move" /\ call.start = 64
    /\ \E i \in 0..63 : is_valid_move(call.before, i, call.disc)

\* the call was apply_move on an empty square in range
OnEmpty == call.op = "apply_move" /\ call.start < 64 /\ call.before[call.start] = None

\* C8: apply_move(index, side) on an empty square in range returns exactly InvalidMove
\* when no direction holds a sandwich, and succeeds when one does.
C8_EmptySquareInvalidOrOk ==
    OnEmpty =>
        call.result = IF Sandwiched(call.before, call.start, call.disc) = {}
                      THEN Err("InvalidMove")
                      ELSE Ok(Unit)

\* a call that succeeds on a square where the same call was an InvalidMove on the
\* opening board: a sandwich has come to exist since
C8_Witness ==
    /\ OnEmpty /\ call.result.ok
    /\ apply_move(NewBoard, call.start, call.disc).result = Err("InvalidMove")

\* C18: after a successful apply_move(index, side) that captures k squares, k >= 1,
\* count_discs(side) is its value before the call plus 1 + k and count_discs of the other
\* side is its value before the call minus k; apply_move(19, Black) on the opening board
\* succeeds, captures exactly square 27 and gives the counts Black = 4, White = 1.
C18_CountsAfterMove ==
    /\ Succeeded =>
          LET k == Cardinality(Sandwiched(call.before, call.start, call.disc))
          IN  /\ k >= 1
              /\ count_discs(squares, call.disc)
                    = count_discs(call.before, call.disc) + 1 + k
              /\ count_discs(squares, Other(call.disc))
                    = count_discs(call.before, Other(call.disc)) - k
    /\ (/\ call.op = "apply_move" /\ call.start = 19 /\ call.disc = "Black"
        /\ NonEmpty(call.before) = 4) =>
          /\ call.result = Ok(Unit)
          /\ {i \in 0..63 : squares[i] # call.before[i]} = {19, 27}
          /\ squares[27] = Some("Black")
          /\ count_discs(squares, "Black") = 4
          /\ count_discs(squares, "White") = 1

\* apply_move(19, Black) was applied to the opening board
C18_Witness ==
    /\ Succeeded /\ call.start = 19 /\ call.disc = "Black"
    /\ NonEmpty(call.before) = 4
    /\ count_discs(call.before, "White") = 2

\* C20: in every state reached from the opening by apply_move calls, successful or
\* failed, a square that holds a disc never becomes empty: a successful call adds exactly
\* the placed square, which was empty, to the occupied squares; a failed call leaves
\* them as they are; and no more than 60 discs are ever placed on the 64 squares.
C20_OccupiedNeverEmptied ==
    /\ [](NonEmpty(squares) - 4 \in 0..60)
    /\ [][/\ \A i \in 0..63 : squares[i] # None => squares'[i] # None
          /\ (call'.op = "apply_move" /\ call'.result.ok) =>
                 /\ squares[call'.start] = None
                 /\ {i \in 0..63 : squares'[i] # None}
                       = {i \in 0..63 : squares[i] # None} \cup {call'.start}
          /\ (call'.op = "apply_move" /\ ~call'.result.ok) =>
                 {i \in 0..63 : squares'[i] # None} = {i \in 0..63 : squares[i] # None}
          ]_vars

\* the third placement captured: a square changed colour and none was emptied
C20_Witness ==
    /\ Succeeded
    /\ NonEmpty(call.before) = 6 /\ NonEmpty(squares) = 7
    /\ \E i \in 0..63 : call.before[i] # None /\ squares[i] # call.before[i]

----------------------------------------------------------------------------
(* Properties of the conversions, under SpecPure *)

\* C15: Disc has the two values Black and White, and opposite is a total involution on
\* it: for every value d of Disc, opposite(d) is a Disc and opposite(opposite(d)) = d.
C15_OppositeTotalInvolution ==
    call.op = "opposite" =>
        /\ call.disc \in {"Black", "White"}
        /\ call.result # None
        /\ opposite(call.result[1]) = Some(call.disc)

\* C16: coordinate conversion is a bounds-checked bijection.  For every index i < 64,
\* row_col(i) is a row and a column below 8 and index of them is i; for every row and
\* col below 8, index(row, col) is an index below 64 and row_col of it is (row, col);
\* index with row >= 8 or col >= 8, and row_col with i >= 64, return OutOfBounds.
C16_CoordinateBijection ==
    /\ (call.op = "row_col" /\ call.i < 64) =>
            call.result.ok /\ call.result.val[1] \in 0..7 /\ call.result.val[2] \in 0..7
    /\ (call.op = "index" /\ call.back # None) => call.result = Ok(call.back[1])
    /\ (call.op = "index" /\ call.row < 8 /\ call.col < 8) =>
            call.result.ok /\ call.result.val \in 0..63
    /\ (call.op = "row_col" /\ call.back # None) => call.result = Ok(call.back[1])
    /\ (call.op = "index" /\ (call.row >= 8 \/ call.col >= 8)) =>
            call.result = Err("OutOfBounds")
    /\ (call.op = "row_col" /\ call.i >= 64) => call.result = Err("OutOfBounds")

\* the last row and column went to index 63 and back
C16_Witness ==
    /\ call.op = "row_col" /\ call.i = 63
    /\ call.back = Some(<<7, 7>>)
    /\ call.result = Ok(<<7, 7>>)

\* C17: a newly constructed Board has 64 squares; it holds White at indices 27 and 36,
\* Black at indices 28 and 35, and every other square is empty: 2 Black and 2 White
\* discs.  (The conversions do not write the board they are called on.)
C17_InitialLayout ==
    /\ DOMAIN squares = 0..63
    /\ \A i \in 0..63 :
          squares[i] = IF i \in {27, 36} THEN Some("White")
                       ELSE IF i \in {28, 35} THEN Some("Black")
                       ELSE None
    /\ count_discs(squares, "Black") = 2
    /\ count_discs(squares, "White") = 2
    /\ \A i \in 0..63 : get_field(squares, i) = Ok(squares[i])

\* the new board is in use: index(3, 3) gave 27, a square that holds White
C17_Witness ==
    /\ call.op = "index" /\ call.result = Ok(27)
    /\ get_field(squares, 27) = Ok(Some("White"))

----------------------------------------------------------------------------
(* Properties of the game, under Spec *)

\* `side` has a legal move on sq: an empty square with a sandwich in some direction
HasLegalMove(sq, side) ==
    \E i \in 0..63 : sq[i] = None /\ \E o \in Offsets : RunLength(sq, i, side, o) >= 1

\* index i is a legal move for `side` on sq: in range, empty, with a sandwich
Legal(sq, i, side) ==
    i < 64 /\ sq[i] = None /\ \E o \in Offsets : RunLength(sq, i, side, o) >= 1

\* C9: in every reachable state of the game, is_over() is true exactly when neither
\* Black nor White has a legal move on the board, whichever side is to move; a state
\* where only the side to move has none is not over.
C9_OverIffBothStuck ==
    is_over(squares) <=> (~HasLegalMove(squares, "Black") /\ ~HasLegalMove(squares, "White"))

\* the side to move has no legal move, the other side has one, and the game is not over
C9_Witness ==
    /\ pc = "run"
    /\ ~HasLegalMove(squares, current)
    /\ HasLegalMove(squares, Other(current))
    /\ ~is_over(squares)

\* C10: outcome() is None in every state where some side has a legal move, the initial
\* state included; in a terminal state it is Winner(Black) when Black has strictly more
\* discs, Winner(White) when White has strictly more, Tie when the counts are equal.
C10_Outcome ==
    LET b == Cardinality({i \in 0..63 : squares[i] = Some("Black")})
        w == Cardinality({i \in 0..63 : squares[i] = Some("White")})
    IN  outcome(squares) =
            IF HasLegalMove(squares, "Black") \/ HasLegalMove(squares, "White") THEN None
            ELSE IF b > w THEN Some(Winner("Black"))
            ELSE IF w > b THEN Some(Winner("White"))
            ELSE Some(Tie)

\* run has returned a winner who does not own every disc on the board
C10_Witness ==
    /\ pc = "returned"
    /\ \E d \in Sides : /\ call.result = Some(Winner(d))
                        /\ count_discs(squares, Other(d)) > 0

\* C11: forced pass.  In the run loop, whenever the game is not over and the side to
\* move has no legal move, the step flips `current` to the other side, leaves every
\* square unchanged and calls select_move on neither Player.
C11_ForcedPass ==
    [][(/\ pc = "run"
        /\ ~HasLegalMove(squares, current)
        /\ HasLegalMove(squares, Other(current)))
       => (/\ current' = Other(current)
           /\ \A i \in 0..63 : squares'[i] = squares[i]
           /\ pc' = "run"
           /\ call'.asked = {})]_vars

\* a forced pass was taken: the side that had no move is no longer the one to move
C11_Witness ==
    /\ call.op = "forced_pass"
    /\ ~HasLegalMove(call.before, call.side)
    /\ current = Other(call.side)
    /\ squares = call.before

\* C12: in the run loop, when the side to move has a legal move and its Player returns
\* an index that is not a legal move for that side (out of range, occupied, or capturing
\* nothing), the step changes neither the board nor `current` and run does not return;
\* the next iteration asks the same side's Player again; and with a Black chooser that
\* always returns the same index, illegal on the opening board, the run stays in its
\* initial state forever.
C12_InvalidChoiceIsNoOp ==
    /\ [](black \in Constants => (squares = NewBoard /\ current = "Black" /\ pc = "run"))
    /\ [][(call'.asked # {} /\ ~Legal(squares, call'.choice, current))
            => (/\ \A i \in 0..63 : squares'[i] = squares[i]
                /\ current' = current
                /\ pc' = "run"
                /\ call'.asked = {current})]_vars
    /\ [][call.op = "rejected"
            => (call'.asked = {call.side} /\ call'.before = call.before)]_vars

\* an illegal choice was dropped and the same side, asked again, has then moved
C12_Witness ==
    /\ call.op = "move"
    /\ current_player(call.side, black, white) = "ErringPlayer"
    /\ ~Legal(call.before, Constant("DummyPlayer"), call.side)
    /\ Legal(call.before, call.choice, call.side)

\* C14: a new Game starts with Black to move; along every run `current` is Black or
\* White; and a step of the run flips `current` to the other side when it completes a
\* half-move (it changes the board by a legal move, or it is a forced pass: the side to
\* move has no legal move and the other side has one) and leaves it alone otherwise.
C14_CurrentFlipsPerHalfMove ==
    /\ current = "Black"
    /\ [](current \in {"Black", "White"})
    /\ [][IF \/ \E i \in 0..63 : squares'[i] # squares[i]
              \/ (/\ pc = "run"
                  /\ ~HasLegalMove(squares, current)
                  /\ HasLegalMove(squares, Other(current)))
           THEN current' = Other(current)
           ELSE current' = current]_vars

\* White has completed a half-move after Black's: the turn is back to Black
C14_Witness ==
    /\ call.op = "move" /\ call.side = "White"
    /\ NonEmpty(squares) = 6
    /\ current = "Black"

----------------------------------------------------------------------------
(* Properties of apply_current, under SpecTest *)

\* C19: apply_current(choice) returns GameError::InvalidMove whenever choice is not a
\* legal move for the side to move, even if it is legal for the other side, and then
\* neither the board nor `current` changes; otherwise it succeeds, applies the move for
\* the side to move (the square and its sandwiched squares) and leaves `current` as it is.
C19_ApplyCurrent ==
    call.op = "apply_current" =>
        /\ current = call.side
        /\ IF ~Legal(call.before, call.choice, call.side)
           THEN call.result = Err(GameInvalidMove) /\ squares = call.before
           ELSE /\ call.result = Ok(Unit)
                /\ \A i \in 0..63 :
                      squares[i] =
                          IF \/ i = call.choice
                             \/ i \in Sandwiched(call.before, call.choice, call.side)
                          THEN Some(call.side)
                          ELSE call.before[i]

\* an index that is a legal move for the other side only was refused, after a move
C19_Witness ==
    /\ call.op = "apply_current"
    /\ call.result = Err(GameInvalidMove)
    /\ Legal(call.before, call.choice, Other(call.side))
    /\ NonEmpty(call.before) > 4

----------------------------------------------------------------------------
(* Properties of the game, under FairSpec *)

\* the choosers that always return the first (lowest) legal index: ComputerPlayer of
\* computer.rs, the same body as the ValidPlayer of the tests of game.rs
FirstLegal == {"ComputerPlayer"}

\* C13: termination.  A run from the standard opening in which both choosers always
\* return the first legal move of the side to move eventually returns; then is_over()
\* holds, neither side has a legal move, and the outcome returned is Tie or a Winner.
C13_FirstLegalRunReturns ==
    (black \in FirstLegal /\ white \in FirstLegal)
        ~> (/\ pc = "returned"
            /\ is_over(squares)
            /\ ~HasLegalMove(squares, "Black") /\ ~HasLegalMove(squares, "White")
            /\ call.result \in {Some(Tie), Some(Winner("Black")), Some(Winner("White"))})

\* the run of two first-legal choosers has returned, after 60 placements
C13_Witness ==
    /\ pc = "returned"
    /\ black \in FirstLegal /\ white \in FirstLegal
    /\ Placed(squares) = 60
    /\ call.result # None

----------------------------------------------------------------------------
(* Properties of the capture search, under SpecLine *)

\* the compass offset <<rows, columns>> of a direction: north is towards row 0, west
\* towards column 0
DirOffset(dir) ==
    << IF dir \in {"North", "NorthEast", "NorthWest"} THEN -1
       ELSE IF dir \in {"South", "SouthEast", "SouthWest"} THEN 1 ELSE 0,
       IF dir \in {"West", "NorthWest", "SouthWest"} THEN -1
       ELSE IF dir \in {"East", "NorthEast", "SouthEast"} THEN 1 ELSE 0 >>

\* the k squares next to `start` along offset o all hold a disc of the other side
OppositeRun(sq, start, side, o, k) ==
    \A j \in 1..k : Ahead(sq, start, o, j) = Some(Other(side))

\* C21: the capture search of one direction follows a straight line and stops at the
\* edge of the board.  A run of discs of the other side that reaches the edge, or that is
\* followed by an empty square, captures nothing in that direction, whatever lies past
\* the empty square; a run that is captured lies on the squares start + k * offset of the
\* grid, every one within the 8 columns and 8 rows, so the search never goes from the
\* last column of a row to the first column of the next row, or back.
C21_StraightLineStopsAtEdge ==
    call.op = "flips_in_direction" =>
        LET sq == call.before
            o  == DirOffset(call.dir)
            n  == RunLength(sq, call.start, call.disc, o)
        IN  /\ \A k \in 1..7 :
                   /\ OppositeRun(sq, call.start, call.disc, o, k)
                   /\ Ahead(sq, call.start, o, k + 1) \in {<<"Edge">>, None}
                   => call.result = None
            /\ Ahead(sq, call.start, o, 1) # Some(Other(call.disc)) => call.result = None
            /\ call.result # None =>
                   /\ n >= 1
                   /\ Len(call.result[1]) = n
                   /\ \A k \in 1..n :
                          /\ (call.start \div 8) + k * o[1] \in 0..7
                          /\ (call.start % 8) + k * o[2] \in 0..7
                          /\ call.result[1][k] = 8 * ((call.start \div 8) + k * o[1])
                                                     + (call.start % 8) + k * o[2]
            /\ n >= 1 => call.result # None

\* flips_in_direction was asked towards the east from the column before the last, with a
\* disc of the other side on the last column and a disc of the own side on the first
\* column of the next row: nothing is captured
C21_Witness ==
    /\ call.op = "flips_in_direction"
    /\ call.dir = "East"
    /\ call.start % 8 = 6
    /\ call.start + 2 < 64
    /\ call.before[call.start + 1] = Some(Other(call.disc))
    /\ call.before[call.start + 2] = Some(call.disc)
    /\ call.result = None

\* flips_in_direction was asked where a run of the other side is followed by an empty
\* square and then a disc of the own side: nothing is captured
C21_WitnessGap ==
    /\ call.op = "flips_in_direction"
    /\ \E k \in 1..5 :
           /\ OppositeRun(call.before, call.start, call.disc, DirOffset(call.dir), k)
           /\ Ahead(call.before, call.start, DirOffset(call.dir), k + 1) = None
           /\ Ahead(call.before, call.start, DirOffset(call.dir), k + 2) = Some(call.disc)
    /\ call.result = None

\* flips_in_direction captured a run of six
C21_WitnessLongest ==
    /\ call.op = "flips_in_direction"
    /\ call.result # None
    /\ Len(call.result[1]) = 6

----------------------------------------------------------------------------
(* The two entry points of the board compared, under SpecBoard *)

\* C22: is_valid_move agrees with apply_move.  For every board, every index (out of
\* range included) and either side, is_valid_move(index, side) is true exactly when
\* apply_move(index, side) on the same board returns Ok.
C22_ValidIffApplyOk ==
    /\ call.op = "is_valid_move" =>
           (call.result <=> apply_move(call.before, call.start, call.disc).result.ok)
    /\ call.op = "apply_move" =>
           (call.result.ok <=> is_valid_move(call.before, call.start, call.disc))

\* is_valid_move was asked, after a placement, for an occupied square from which a disc
\* would have been captured: it is false and apply_move reports SquareOccupied
C22_Witness ==
    /\ call.op = "is_valid_move"
    /\ Placed(call.before) >= 1
    /\ call.start \in 0..63
    /\ call.before[call.start] # None
    /\ Sandwiched(call.before, call.start, call.disc) # {}
    /\ ~call.result
    /\ apply_move(call.before, call.start, call.disc).result = Err("SquareOccupied")

\* is_valid_move was true, after a placement, and apply_move returns Ok
C22_WitnessValid ==
    /\ call.op = "is_valid_move"
    /\ Placed(call.before) >= 1
    /\ call.result
    /\ apply_move(call.before, call.start, call.disc).result = Ok(Unit)

----------------------------------------------------------------------------
(* Properties of the run loop, under Spec *)

\* C23: in the run loop the turn advances on the move branch only together with a
\* change of the board.  Every apply_current that follows a true is_valid_move returns
\* Ok and puts a disc of the side that was to move on the chosen, empty square; and a
\* step that asked a chooser and flipped `current` has placed that disc.
C23_TurnAdvancesOnlyWithPlacement ==
    /\ [](call.op = "move" =>
             /\ call.result = Ok(Unit)
             /\ Legal(call.before, call.choice, call.side)
             /\ squares[call.choice] = Some(call.side)
             /\ current = Other(call.side))
    /\ [][(call'.asked # {} /\ current' # current)
            => (/\ call'.op = "move"
                /\ call'.result = Ok(Unit)
                /\ call'.choice \in 0..63
                /\ squares[call'.choice] = None
                /\ squares'[call'.choice] = Some(current))]_vars

\* the chooser of White was asked, its choice was valid and applied, and the turn went
\* back to Black
C23_Witness ==
    /\ call.op = "move"
    /\ call.side = "White"
    /\ call.result = Ok(Unit)
    /\ call.before[call.choice] = None
    /\ squares[call.choice] = Some("White")
    /\ current = "Black"

\* C24: two forced passes never come in a row.  A forced pass is taken only where the
\* game is not over, so after it the side now to move has a legal move; and every forced
\* pass comes right after a placement, so the loop cannot go on passing without one.
C24_NoTwoForcedPassesInARow ==
    /\ [](call.op = "forced_pass" =>
             /\ ~HasLegalMove(call.before, call.side)
             /\ current = Other(call.side)
             /\ HasLegalMove(squares, current))
    /\ [][call'.op = "forced_pass" => call.op = "move"]_vars

\* after a forced pass the other side, which has a legal move, has placed a disc
C24_Witness ==
    /\ call.op = "move"
    /\ ~HasLegalMove(call.before, Other(call.side))
    /\ call.result = Ok(Unit)

\* C25: the run loop calls select_move only on the Player of the side to move, hands it
\* that side, and only where that side has a legal move, so that a chooser that takes the
\* first element of the list of legal moves never finds the list empty.
C25_ChooserAskedForSideToMove ==
    [][call'.asked # {}
         => (/\ pc = "run"
             /\ call'.asked = {current}
             /\ call'.side = current
             /\ call'.player = (IF current = "Black" THEN black ELSE white)
             /\ HasLegalMove(squares, current)
             /\ valid_moves(squares, call'.side) # << >>)]_vars

\* the first-legal chooser plays White against another player and was asked for White:
\* it returned the lowest legal index
C25_Witness ==
    /\ call.op = "move"
    /\ call.side = "White"
    /\ white = "ComputerPlayer" /\ black # "ComputerPlayer"
    /\ call.player = "ComputerPlayer"
    /\ Legal(call.before, call.choice, "White")
    /\ \A j \in 0..63 : j < call.choice => ~Legal(call.before, j, "White")

----------------------------------------------------------------------------
(* Properties of the capture buffers, under SpecLine *)

\* the squares of the run that flips_in_direction gives for direction number k
RunCells(sq, start, disc, k) ==
    IF flips_in_direction(sq, start, disc, ALL[k]) \in {None, Panic} THEN {}
    ELSE {flips_in_direction(sq, start, disc, ALL[k])[1][j] :
             j \in 1..Len(flips_in_direction(sq, start, disc, ALL[k])[1])}

\* the length of that run, 0 when there is none
RunLen(sq, start, disc, k) ==
    IF flips_in_direction(sq, start, disc, ALL[k]) \in {None, Panic} THEN 0
    ELSE Len(flips_in_direction(sq, start, disc, ALL[k])[1])

\* what the claim on all_flips says of the latest call: no panic; the runs of the 8
\* directions have no square twice and are pairwise disjoint, together at most 64
\* squares; and None is returned only when no direction has a run
AllFlipsFits ==
    call.op = "all_flips" =>
        /\ call.result # Panic
        /\ \A k \in 1..8 : RunLen(call.before, call.start, call.disc, k)
                               = Cardinality(RunCells(call.before, call.start, call.disc, k))
        /\ \A k1, k2 \in 1..8 :
               k1 # k2 => RunCells(call.before, call.start, call.disc, k1)
                            \cap RunCells(call.before, call.start, call.disc, k2) = {}
        /\ Cardinality(UNION {RunCells(call.before, call.start, call.disc, k) : k \in 1..8})
               <= 64
        /\ (call.result = None)
               <=> (\A k \in 1..8 : RunCells(call.before, call.start, call.disc, k) = {})
        /\ call.result # None =>
               Len(call.result[1])
                   = Cardinality(UNION {RunCells(call.before, call.start, call.disc, k) :
                                           k \in 1..8})

\* C26: the capture buffers never overflow.  For every board, start square, side and
\* direction, flips_in_direction does not panic on push: its buffer of capacity 8 holds
\* at most 7 squares when the call returns (7 when the run reaches the edge from the
\* first square of a line, and None is returned) and a run that is returned has at most
\* 6; the runs of the 8 directions are pairwise disjoint and together at most 64
\* squares, so that all_flips never gives None for a full buffer.
C26_BuffersNeverOverflow ==
    /\ call.op = "flips_in_direction" =>
           /\ call.result # Panic
           /\ Len(call.flips) <= 7
           /\ call.result # None => (call.result[1] = call.flips /\ Len(call.flips) <= 6)
    /\ AllFlipsFits

\* C26 as stated: the run accumulated by flips_in_direction has at most 6 squares,
\* whatever the call returns; the runs of the 8 directions are pairwise disjoint and
\* together at most 64 squares, and all_flips never gives None for a full buffer.
C26_AccumulatedAtMostSix ==
    /\ call.op = "flips_in_direction" =>
           /\ call.result # Panic
           /\ Len(call.flips) <= 6
    /\ AllFlipsFits

\* flips_in_direction walked over 7 discs of the other side to the edge: the buffer
\* held 7 squares and None was returned
C26_Witness ==
    /\ call.op = "flips_in_direction"
    /\ Len(call.flips) = 7
    /\ call.result = None

\* all_flips gave the runs of two directions or more
C26_WitnessAllFlips ==
    /\ call.op = "all_flips"
    /\ call.result # None
    /\ \E k1, k2 \in 1..8 :
           /\ k1 # k2
           /\ RunCells(call.before, call.start, call.disc, k1) # {}
           /\ RunCells(call.before, call.start, call.disc, k2) # {}

====
